---- MODULE Spec2Model ----
(***************************************************************************)
(* Model of robotics.py: a grid graph, the rejection sampler of an         *)
(* asymmetric robot placement, and the canonical ranking of the robots.    *)
(* Positions are pairs <<x, y>>; Python lists are sequences; Python sets   *)
(* are sets; an occupancy string is a sequence over {0, 1} standing for    *)
(* the characters '0' < '1'.                                               *)
(***************************************************************************)
EXTENDS Integers, Sequences, FiniteSets

\* ------------------------------------------------------------- bounds
\* Largest rows / cols value the input step offers.
MaxDim == 2
\* Largest number of robots the input step offers.
MaxRobots == 3
\* Largest node count of a grid whose full occupancy is requested.
MaxFull == 4
\* Largest request offered at all (beyond MaxRobots: refused or full).
MaxRequest == 10
\* Largest number of agents handed to compute_ranks on its own.
MaxAgents == 3

\* ---------------------------------------------------------- constants
\* range(500): the attempt budget of place_robots_asymmetric.
Attempts == 500
\* Robot.rank = None until compute_ranks assigns it; ranks start at 1.
NoRank == 0
\* anchor = (0, 0)
anchor == <<0, 0>>
\* raise ValueError("Too many robots for grid")
TooManyRobots == "ValueError: Too many robots for grid"
\* raise RuntimeError("Failed to find asymmetric placement")
AsymmetricPlacementNotFound == "RuntimeError: Failed to find asymmetric placement"
\* for node in None: iterating best_order when no order was selected
NoneNotIterable == "TypeError: 'NoneType' object is not iterable"

\* ------------------------------------------------------------ helpers
Range(s) == {s[i] : i \in DOMAIN s}

Min(S) == CHOOSE m \in S : \A n \in S : m <= n

\* range(0, n + 1): 0, 1, ..., n (empty when n < 0)
RangeAsc(n) == [i \in 1..(n + 1) |-> i - 1]

\* Mutant: the descending range written as the ascending one.
RangeDescAscending(n) == RangeAsc(n)

\* range(n, -1, -1): n, n - 1, ..., 0 (empty when n < 0)
RangeDesc(n) == [i \in 1..(n + 1) |-> n + 1 - i]

\* [(x, y) for x in xs for y in ys]: xs is the outer loop, ys the inner.
Comprehension(xs, ys) ==
    [k \in 1..(Len(xs) * Len(ys)) |->
        <<xs[((k - 1) \div Len(ys)) + 1], ys[((k - 1) % Len(ys)) + 1]>>]

\* list(reversed(order)) and s[::-1]
Reversed(s) == [i \in 1..Len(s) |-> s[Len(s) + 1 - i]]

\* ------------------------------------------------------------ GridGraph
GridGraph(r, c) ==
    [rows |-> r, cols |-> c, nodes |-> Comprehension(RangeAsc(r), RangeAsc(c))]

\* ------------------------------------------------------------- Robot
Robot(id, pos) == [robot_id |-> id, position |-> pos, rank |-> NoRank]

\* ------------------------------------------------------ symmetry check
reflect_horizontal(P, r) == {<<r - p[1], p[2]>> : p \in P}

reflect_vertical(P, c) == {<<p[1], c - p[2]>> : p \in P}

rotate_180(P, r, c) == {<<r - p[1], c - p[2]>> : p \in P}

\* Mutant: the rotation test is left out.
is_symmetric_no_rotation(poslist, r, c) ==
    LET pos_set == Range(poslist)
    IN  \/ pos_set = reflect_horizontal(pos_set, r)
        \/ pos_set = reflect_vertical(pos_set, c)

\* Mutant: the horizontal test is left out.
is_symmetric_no_horizontal(poslist, r, c) ==
    LET pos_set == Range(poslist)
    IN  \/ pos_set = reflect_vertical(pos_set, c)
        \/ pos_set = rotate_180(pos_set, r, c)

is_symmetric(poslist, r, c) ==
    LET pos_set == Range(poslist)
    IN  \/ pos_set = reflect_horizontal(pos_set, r)
        \/ pos_set = reflect_vertical(pos_set, c)
        \/ pos_set = rotate_180(pos_set, r, c)

\* ------------------------------------------------------ random.sample
\* random.sample(population, k): every list of k distinct elements of the
\* population is a possible result (defined for 0 <= k <= |population|).
RECURSIVE Sample(_, _)
Sample(S, k) ==
    IF k = 0 THEN {<<>>}
    ELSE UNION {{Append(p, x) : x \in S \ Range(p)} : p \in Sample(S, k - 1)}

\* [Robot(i + 1, pos) for i, pos in enumerate(positions)]
MakeRobots(poslist) == [i \in 1..Len(poslist) |-> Robot(i, poslist[i])]

\* ------------------------------------------------------ rank computation
traversal_orders(g) ==
    << Comprehension(RangeAsc(g.rows),  RangeAsc(g.cols)),
       Comprehension(RangeAsc(g.rows),  RangeDesc(g.cols)),
       Comprehension(RangeDesc(g.rows), RangeAsc(g.cols)),
       Comprehension(RangeDesc(g.rows), RangeDesc(g.cols)) >>

\* ''.join('1' if n in positions else '0' for n in order)
OccupancyString(order, P) ==
    [i \in 1..Len(order) |-> IF order[i] \in P THEN 1 ELSE 0]

\* Python's a > b on strings: at the first differing character the larger
\* character decides; when one is a prefix of the other the longer is greater.
StrGreater(a, b) ==
    LET m == IF Len(a) < Len(b) THEN Len(a) ELSE Len(b)
        diff == {i \in 1..m : a[i] # b[i]}
    IN  IF diff = {} THEN Len(a) > Len(b)
        ELSE a[Min(diff)] > b[Min(diff)]

\* Mutant: line 91 keeps the order as it is instead of reversing it.
BestStepOrderNotReversed(best, order, P) ==
    LET s  == OccupancyString(order, P)
        rs == Reversed(s)
        b1 == IF StrGreater(s, best.str)
              THEN [str |-> s, order |-> order, has |-> TRUE]
              ELSE best
    IN  IF StrGreater(rs, b1.str)
        THEN [str |-> rs, order |-> order, has |-> TRUE]
        ELSE b1

\* One iteration of `for order in traversal_orders(grid)` (lines 83-91),
\* from the pair (best_string, best_order) to the next pair. `has` is
\* FALSE while best_order is None.
BestStep(best, order, P) ==
    LET s  == OccupancyString(order, P)
        rs == Reversed(s)
        b1 == IF StrGreater(s, best.str)
              THEN [str |-> s, order |-> order, has |-> TRUE]
              ELSE best
    IN  IF StrGreater(rs, b1.str)
        THEN [str |-> rs, order |-> Reversed(order), has |-> TRUE]
        ELSE b1

\* The whole selection loop of compute_ranks over the first n orders.
RECURSIVE BestAfter(_, _, _)
BestAfter(orders, n, P) ==
    IF n = 0 THEN [str |-> <<>>, order |-> <<>>, has |-> FALSE]
    ELSE BestStep(BestAfter(orders, n - 1, P), orders[n], P)

\* robot_map = {r.position: r for r in robots}: a later robot at the same
\* position replaces an earlier one; the value is the robot's list index.
RobotMapKeys(rs) == {rs[i].position : i \in DOMAIN rs}

RobotMapAt(rs, pos) ==
    CHOOSE i \in DOMAIN rs :
        /\ rs[i].position = pos
        /\ \A j \in DOMAIN rs : rs[j].position = pos => j <= i

\* ---------------------------------------------------------------- state
VARIABLES
    rows, cols, num_robots,  \* the three inputs of __main__
    grid,                    \* <<>> before GridGraph(...), then <<the grid>>
    pc,                      \* position of __main__
    attempt,                 \* completed iterations of `for _ in range(500)`
    positions,               \* place_robots_asymmetric's local `positions`
    robots,                  \* the list of Robot objects
    error,                   \* the exception that ended the run, "" if none
    best_string, best_order, \* compute_ranks's locals
    node_idx,                \* index of the next node of `for node in best_order`
    rank                     \* compute_ranks's local `rank`

vars == <<rows, cols, num_robots, grid, pc, attempt, positions, robots,
          error, best_string, best_order, node_idx, rank>>

inputs == <<rows, cols, num_robots>>
rank_locals == <<best_string, best_order, node_idx, rank>>

\* Dimensions offered as input: int(input(...)) accepts negative numbers.
Dims == {-1} \cup (0..MaxDim)

\* len(grid.nodes) of GridGraph(r, c)
NodeCount(r, c) == Len(GridGraph(r, c).nodes)

\* The requests explored: few robots on any grid, any request the size
\* check refuses, and full occupancy of the small grids.
Explored(r, c, n) ==
    \/ n <= MaxRobots
    \/ n > NodeCount(r, c)
    \/ n = NodeCount(r, c) /\ n <= MaxFull

\* Lines 166-168: the inputs are read; nothing is constructed yet.
Init ==
    /\ rows \in Dims
    /\ cols \in Dims
    /\ num_robots \in 1..MaxRequest
    /\ Explored(rows, cols, num_robots)
    /\ grid = <<>>
    /\ pc = "construct"
    /\ attempt = 0
    /\ positions = <<>>
    /\ robots = <<>>
    /\ error = ""
    /\ best_string = <<>>
    /\ best_order = <<>>
    /\ node_idx = 0
    /\ rank = 0

\* Line 170: grid = GridGraph(rows, cols). The constructor checks nothing.
Construct ==
    /\ pc = "construct"
    /\ grid' = <<GridGraph(rows, cols)>>
    /\ pc' = "place"
    /\ UNCHANGED <<inputs, attempt, positions, robots, error, rank_locals>>

\* Mutant: the size check is off by one.
TooManyOffByOne(g, n) == n > Len(g.nodes) + 1

\* Lines 49-52: the size check on entry to place_robots_asymmetric.
TooMany(g, n) == n > Len(g.nodes)

PlaceEnter ==
    /\ pc = "place"
    /\ IF TooMany(grid[1], num_robots)
       THEN /\ error' = TooManyRobots
            /\ pc' = "failed"
       ELSE /\ error' = error
            /\ pc' = "sampling"
    /\ UNCHANGED <<inputs, grid, attempt, positions, robots, rank_locals>>

\* Mutant: the anchor is not taken out of the population.
RemainingWithAnchor(g) == Range(g.nodes)

\* Line 55: remaining = list(set(grid.nodes) - {anchor})
Remaining(g) == Range(g.nodes) \ {anchor}

\* Line 59: the acceptance test of a candidate.
Accepts(poslist, g) == ~ is_symmetric(poslist, g.rows, g.cols)

\* Mutant: the loop runs one iteration too many.
LoopOverOneMore(a) == a > Attempts

\* Line 54: `for _ in range(500)` has no iteration left.
LoopOver(a) == a >= Attempts

\* Lines 54-57: an iteration of the retry loop starts and draws its
\* candidate: positions = [anchor] + sampled.
PlaceDraw ==
    /\ pc = "sampling"
    /\ ~ LoopOver(attempt)
    /\ \E sampled \in Sample(Remaining(grid[1]), num_robots - 1) :
         positions' = <<anchor>> \o sampled
    /\ pc' = "drawn"
    /\ UNCHANGED <<inputs, grid, attempt, robots, error, rank_locals>>

\* Lines 59-60: the candidate is accepted and returned, or the loop goes on.
\* `positions` is not read again before line 57 overwrites it, and on return
\* the function's locals are gone: both exits leave it empty.
PlaceTest ==
    /\ pc = "drawn"
    /\ IF Accepts(positions, grid[1])
       THEN /\ robots' = MakeRobots(positions)
            /\ pc' = "placed"
            /\ attempt' = 0
       ELSE /\ robots' = robots
            /\ pc' = "sampling"
            /\ attempt' = attempt + 1
    /\ positions' = <<>>
    /\ UNCHANGED <<inputs, grid, error, rank_locals>>

\* Line 62: the loop ran out of iterations.
PlaceExhausted ==
    /\ pc = "sampling"
    /\ LoopOver(attempt)
    /\ error' = AsymmetricPlacementNotFound
    /\ pc' = "failed"
    /\ attempt' = 0
    /\ UNCHANGED <<inputs, grid, positions, robots, rank_locals>>

\* Lines 76-93: compute_ranks up to and including `rank = 1`.
SelectOrder(g, rs) == BestAfter(traversal_orders(g), 4, RobotMapKeys(rs))

RankSelect ==
    /\ pc = "placed"
    /\ \E best \in {SelectOrder(grid[1], robots)} :
           /\ best_string' = best.str
           /\ best_order' = best.order
           /\ IF best.has
              THEN /\ pc' = "ranking"
                   /\ error' = error
              ELSE /\ pc' = "failed"
                   /\ error' = NoneNotIterable
    /\ rank' = 1
    /\ node_idx' = 1
    /\ UNCHANGED <<inputs, grid, attempt, positions, robots>>

\* Mutant: the current rank is written to every robot.
AssignRankToAll(rs, node, rk) ==
    IF node \in RobotMapKeys(rs)
    THEN [i \in DOMAIN rs |-> [rs[i] EXCEPT !.rank = rk]]
    ELSE rs

\* Mutant: the rank counter is never incremented.
BumpRankNever(rs, node, rk) == rk

\* Lines 95-97: the body of `for node in best_order` for one node.
AssignRank(rs, node, rk) ==
    IF node \in RobotMapKeys(rs)
    THEN [rs EXCEPT ![RobotMapAt(rs, node)].rank = rk]
    ELSE rs

BumpRank(rs, node, rk) == IF node \in RobotMapKeys(rs) THEN rk + 1 ELSE rk

\* Lines 94-97: one iteration of the ranking loop; after the last node
\* compute_ranks returns.
RankAssign ==
    /\ pc = "ranking"
    /\ node_idx <= Len(best_order)
    /\ robots' = AssignRank(robots, best_order[node_idx], rank)
    /\ rank' = BumpRank(robots, best_order[node_idx], rank)
    /\ node_idx' = node_idx + 1
    /\ pc' = IF node_idx = Len(best_order) THEN "done" ELSE "ranking"
    /\ UNCHANGED <<inputs, grid, attempt, positions, error,
                   best_string, best_order>>

Next ==
    \/ Construct
    \/ PlaceEnter
    \/ PlaceDraw
    \/ PlaceTest
    \/ PlaceExhausted
    \/ RankSelect
    \/ RankAssign

Spec == Init /\ [][Next]_vars

\* The strictly increasing lists of k indices out of 1..n.
RECURSIVE Increasing(_, _)
Increasing(n, k) ==
    IF k = 0 THEN {<<>>}
    ELSE UNION {{Append(s, m) : m \in (IF Len(s) = 0 THEN 1 ELSE s[Len(s)] + 1)..n}
                : s \in Increasing(n, k - 1)}

\* compute_ranks on its own: any grid, any set of 1..MaxAgents pairwise
\* distinct nodes, the robots listed (and so numbered) in node order or in
\* reverse node order, as a caller other than __main__ may pass them.
InitRank ==
    /\ rows \in 0..MaxDim
    /\ cols \in 0..MaxDim
    /\ grid = <<GridGraph(rows, cols)>>
    /\ num_robots \in 1..MaxAgents
    /\ num_robots <= NodeCount(rows, cols)
    /\ \E idx \in Increasing(NodeCount(rows, cols), num_robots) :
         \E backwards \in BOOLEAN :
            LET ps == [i \in 1..num_robots |-> grid[1].nodes[idx[i]]]
            IN  robots = MakeRobots(IF backwards THEN Reversed(ps) ELSE ps)
    /\ pc = "placed"
    /\ attempt = 0
    /\ positions = <<>>
    /\ error = ""
    /\ best_string = <<>>
    /\ best_order = <<>>
    /\ node_idx = 0
    /\ rank = 0

\* Lines 75-97: compute_ranks run to completion on the list rs.
RECURSIVE RankLoop(_, _, _, _)
RankLoop(rs, order, i, rk) ==
    IF i > Len(order) THEN rs
    ELSE RankLoop(AssignRank(rs, order[i], rk), order, i + 1,
                  BumpRank(rs, order[i], rk))

compute_ranks(g, rs) == RankLoop(rs, SelectOrder(g, rs).order, 1, 1)

RankNext ==
    \/ RankSelect
    \/ RankAssign

SpecRank == InitRank /\ [][RankNext]_vars

\* ------------------------------------------------------------ properties
Placed == pc \in {"placed", "ranking", "done"}

Occupied == {robots[i].position : i \in DOMAIN robots}

InLoop == pc \in {"sampling", "drawn"}

\* C1: a placement returned by place_robots_asymmetric differs from its
\* horizontal reflection, from its vertical reflection and from its
\* 180-degree rotation.
C1_PlacementNotSymmetric ==
    Placed =>
        /\ Occupied # reflect_horizontal(Occupied, rows)
        /\ Occupied # reflect_vertical(Occupied, cols)
        /\ Occupied # rotate_180(Occupied, rows, cols)

C1_Witness ==
    /\ pc = "placed"
    /\ rows = 2 /\ cols = 2
    /\ Occupied = {<<0, 0>>, <<1, 1>>}

\* C2: a returned placement has exactly num_robots robots at pairwise
\* distinct nodes of the grid, the anchor (0,0) is occupied, and the ids are
\* 1..num_robots in production order, so robot 1 is the one at (0,0).
C2_PlacementWellFormed ==
    Placed =>
        /\ Len(robots) = num_robots
        /\ \A i, j \in DOMAIN robots :
              robots[i].position = robots[j].position => i = j
        /\ \A i \in DOMAIN robots : robots[i].position \in Range(grid[1].nodes)
        /\ <<0, 0>> \in Occupied
        /\ \A i \in DOMAIN robots : robots[i].robot_id = i
        /\ robots[1].position = <<0, 0>>

C2_Witness ==
    /\ pc = "placed"
    /\ num_robots = 3
    /\ robots[2].position = <<2, 1>>
    /\ robots[3].position = <<0, 1>>

\* C3: when compute_ranks has run on k >= 1 robots at pairwise distinct
\* nodes, every robot has a rank and the ranks are exactly 1..k, each once.
C3_RanksArePermutation ==
    pc = "done" =>
        /\ \A i \in DOMAIN robots : robots[i].rank # NoRank
        /\ {robots[i].rank : i \in DOMAIN robots} = 1..Len(robots)
        /\ \A i, j \in DOMAIN robots : robots[i].rank = robots[j].rank => i = j

C3_Witness ==
    /\ pc = "done"
    /\ Len(robots) >= 2
    /\ robots[1].rank = Len(robots)

\* The three non-trivial symmetries of the grid, applied to one position.
Transform(t, p) ==
    CASE t = "horizontal" -> <<rows - p[1], p[2]>>
      [] t = "vertical"   -> <<p[1], cols - p[2]>>
      [] t = "rotation"   -> <<rows - p[1], cols - p[2]>>

Asymmetric ==
    /\ Occupied # {Transform("horizontal", p) : p \in Occupied}
    /\ Occupied # {Transform("vertical", p) : p \in Occupied}
    /\ Occupied # {Transform("rotation", p) : p \in Occupied}

\* C4: for a placement that is not symmetric and each of the three
\* transforms g, compute_ranks on the transformed placement gives the robot
\* at g(p) the rank that compute_ranks gave the robot at p.
C4_RankOrientationIndependent ==
    (pc = "done" /\ Asymmetric) =>
        \A t \in {"horizontal", "vertical", "rotation"} :
            \A moved \in {[i \in DOMAIN robots |->
                              Robot(i, Transform(t, robots[i].position))]} :
                \A out \in {compute_ranks(grid[1], moved)} :
                    \A i \in DOMAIN robots : out[i].rank = robots[i].rank

C4_Witness ==
    /\ pc = "done"
    /\ Asymmetric
    /\ Len(robots) >= 2
    /\ <<0, 0>> \notin Occupied
    /\ \E i \in DOMAIN robots : robots[i].rank # i

\* C5: a request for more robots than the grid has nodes fails with the
\* too-many-robots error before any candidate is drawn or tested, and no
\* robot is returned.
C5_TooManyRobotsBeforeSampling ==
    (pc # "construct" /\ num_robots > (rows + 1) * (cols + 1)
                      /\ rows >= 0 /\ cols >= 0) =>
        /\ pc \in {"place", "failed"}
        /\ pc = "failed" => error = TooManyRobots
        /\ positions = <<>>
        /\ attempt = 0
        /\ robots = <<>>

C5_Witness ==
    /\ rows = 2 /\ cols = 2 /\ num_robots = 10
    /\ pc = "failed"
    /\ error = TooManyRobots

\* Progress of the retry loop: two per completed attempt, one for a drawn
\* candidate.
LoopMeasure == 2 * attempt + (IF pc = "drawn" THEN 1 ELSE 0)

\* C6: the retry loop makes at most 500 attempts, it never blocks, and each
\* step of it either leaves the loop or advances it, so it ends; a candidate that is not symmetric is
\* returned at once, a symmetric one costs one attempt; the loop fails with
\* the not-found error exactly when 500 attempts were used, returning no
\* robots; with full occupancy it never returns a placement.
C6_SamplerBounded ==
    /\ [](attempt \in 0..Attempts /\ LoopMeasure <= 2 * Attempts)
    /\ [](InLoop => ENABLED (PlaceDraw \/ PlaceTest \/ PlaceExhausted))
    /\ [][InLoop => (~InLoop' \/ LoopMeasure' = LoopMeasure + 1)]_vars
    /\ [][pc = "drawn" =>
            IF \/ Range(positions) = reflect_horizontal(Range(positions), rows)
               \/ Range(positions) = reflect_vertical(Range(positions), cols)
               \/ Range(positions) = rotate_180(Range(positions), rows, cols)
            THEN pc' = "sampling" /\ attempt' = attempt + 1 /\ robots' = robots
            ELSE /\ pc' = "placed"
                 /\ [i \in DOMAIN robots' |-> robots'[i].position] = positions]_vars
    /\ [][(pc = "sampling" /\ pc' # "drawn") =>
            /\ attempt = Attempts
            /\ pc' = "failed"
            /\ error' = AsymmetricPlacementNotFound
            /\ robots' = <<>>]_vars
    /\ []((pc # "construct" /\ num_robots = (rows + 1) * (cols + 1)
                            /\ rows >= 0 /\ cols >= 0) => ~Placed)

C6_Witness ==
    /\ rows = 1 /\ cols = 1 /\ num_robots = 4
    /\ pc = "failed"
    /\ error = AsymmetricPlacementNotFound

\* C7: a negative rows or cols makes the construction of the grid fail, so
\* no grid value exists for such dimensions.
C7_NegativeDimensionsRejected ==
    (rows < 0 \/ cols < 0) => grid = <<>>

\* C8: a step of compute_ranks keeps the list of robots, their ids and their
\* positions; it changes a rank only from unset to set; when compute_ranks
\* returns every rank is set.
C8_RankerWritesRanksOnce ==
    [][/\ Len(robots') = Len(robots)
       /\ \A i \in DOMAIN robots :
            /\ robots'[i].robot_id = robots[i].robot_id
            /\ robots'[i].position = robots[i].position
            /\ robots'[i].rank # robots[i].rank =>
                  (robots[i].rank = NoRank /\ robots'[i].rank # NoRank)
       /\ pc' = "done" => \A i \in DOMAIN robots : robots'[i].rank # NoRank]_vars

C8_Witness ==
    /\ pc = "ranking"
    /\ \E i, j \in DOMAIN robots :
          robots[i].rank # NoRank /\ robots[j].rank = NoRank

\* The claim's enumeration of candidates, stated without the code's loops.
\* Node at place k (1-based) of the base order with the given directions:
\* x is the outer index, y the inner one.
ClaimBaseNode(k, xdesc, ydesc) ==
    LET x == (k - 1) \div (cols + 1)
        y == (k - 1) % (cols + 1)
    IN  <<IF xdesc THEN rows - x ELSE x, IF ydesc THEN cols - y ELSE y>>

ClaimSize == (rows + 1) * (cols + 1)

\* Node at place k of candidate j of 1..8: base order 1, its reversal, base
\* order 2, its reversal, ...; base orders asc/asc, asc/desc, desc/asc,
\* desc/desc.
ClaimNode(j, k) ==
    LET b == (j + 1) \div 2
    IN  ClaimBaseNode(IF j % 2 = 1 THEN k ELSE ClaimSize + 1 - k,
                      b \in {3, 4}, b \in {2, 4})

\* The first n characters of candidate j's occupancy string read as a binary
\* number: for strings of one length the lexicographic and the numeric order
\* agree.
RECURSIVE ClaimValue(_, _)
ClaimValue(j, n) ==
    IF n = 0 THEN 0
    ELSE 2 * ClaimValue(j, n - 1) + (IF ClaimNode(j, n) \in Occupied THEN 1 ELSE 0)

\* The values of the 8 candidates' strings.
ClaimValues == [j \in 1..8 |-> ClaimValue(j, ClaimSize)]

\* Candidate w is the first one whose string is the maximum of the 8.
ClaimIsWinner(w, vals) ==
    /\ \A j \in 1..8 : vals[w] >= vals[j]
    /\ \A j \in 1..(w - 1) : vals[j] < vals[w]

\* C9: compute_ranks walks the first of the 8 candidates whose occupancy
\* string is the lexicographic maximum, and a robot's rank is 1 plus the
\* number of occupied nodes before its node in that candidate.
C9_FirstMaximalCandidate ==
    pc \in {"ranking", "done"} =>
        \E vals \in {ClaimValues} : \E w \in 1..8 :
            /\ ClaimIsWinner(w, vals)
            /\ best_order = [k \in 1..ClaimSize |-> ClaimNode(w, k)]
            /\ pc = "done" =>
                 \A i \in DOMAIN robots :
                    \E k \in 1..ClaimSize :
                       /\ ClaimNode(w, k) = robots[i].position
                       /\ robots[i].rank =
                            1 + Cardinality({m \in 1..(k - 1) :
                                               ClaimNode(w, m) \in Occupied})

C9_Witness ==
    /\ pc = "done"
    /\ ClaimIsWinner(4, ClaimValues)
    /\ Len(robots) = 2
    /\ rows = 2 /\ cols = 1

DegenerateRequest ==
    /\ rows >= 0 /\ cols >= 0
    /\ (rows = 0 \/ cols = 0)
    /\ num_robots <= (rows + 1) * (cols + 1)

\* C10: on a grid with rows = 0 or cols = 0 a request within the node count
\* never yields a placement, and the run fails only with the not-found
\* error, raised after all 500 attempts.
C10_DegenerateGridNeverPlaces ==
    /\ [](DegenerateRequest => (~Placed /\ robots = <<>>))
    /\ [][(DegenerateRequest /\ pc' = "failed" /\ pc # "failed") =>
            /\ pc = "sampling"
            /\ attempt = Attempts
            /\ error' = AsymmetricPlacementNotFound]_vars

C10_Witness ==
    /\ rows = 0 /\ cols = 2 /\ num_robots = 2
    /\ pc = "failed"
    /\ error = AsymmetricPlacementNotFound

====
